---- MODULE Spec2Model ----
(***************************************************************************)
(* Indexed merkle tree (aztec-imt-task).  Two implementations of the same  *)
(* class are modelled:                                                     *)
(*   impl = "dirty"  : src/unnamed/part_000 (dirty/clean tracking, one     *)
(*                     build_hashes_from_leaves pass per insertion)        *)
(*   impl = "rehash" : src/cryptography-engineer/.../indexed_merkle_tree   *)
(*                     .cpp (full rehash inside get_hash_path)             *)
(* Vectors are 0-indexed functions, as in the source.  Hashes are symbolic *)
(* injective terms: leaf::hash() is <<"H", v, ni, nv>>, compress_pair /    *)
(* compress_native is <<"C", a, b>>, an fr built from an integer literal   *)
(* is <<"fr", n>>.                                                         *)
(***************************************************************************)
EXTENDS Integers, Sequences, FiniteSets, TLC

\* ---------------------------------------------------------------- bounds
MaxDepth == 3
MaxLeaves == 5
\* stands for 2^64, the modulus of the (uint64_t) conversion of an fr
U64Modulus == 64

\* field elements offered to update_element: 0, the values of the header's
\* worked example, and one element that does not fit 64 bits
Values == {0, 10, 20, 30, 50, U64Modulus + 10}
Impls == {"dirty", "rehash"}

VARIABLES impl, depth_, total_size_, root_, leaves_, hashes_,
          level_str_idxs_, hstats_, call, ret, path

vars == <<impl, depth_, total_size_, root_, leaves_, hashes_,
          level_str_idxs_, hstats_, call, ret, path>>

\* ---------------------------------------------------------------- values
Size(f) == Cardinality(DOMAIN f)

PushBack(f, x) == [i \in 0..Size(f) |-> IF i < Size(f) THEN f[i] ELSE x]

U64(v) == v % U64Modulus

Leaf(v, ni, nv) == [value |-> v, nextIndex |-> ni, nextValue |-> nv]

LeafHash(l) == <<"H", l.value, l.nextIndex, l.nextValue>>

Compress(a, b) == <<"C", a, b>>

FrLit(n) == <<"fr", n>>

Uninit == <<"uninit">>

NoRet == <<"none">>

NoPath == <<>>

\* ------------------------------------------------------- level arithmetic
RECURSIVE LevelStart(_, _)
LevelStart(depth, i) ==
    IF i = 0 THEN 0
    ELSE LevelStart(depth, i - 1) + 2 ^ (depth - (i - 1))

LevelStrIdxs(depth) == [i \in 0..(depth - 1) |-> LevelStart(depth, i)]

\* the inner loop over level_str_idxs: <<level_str_idx, prev_level_str_idx>>
RECURSIVE LocateLoop(_, _, _, _, _)
LocateLoop(lsis, i, l, cur, prev) ==
    IF l \notin DOMAIN lsis THEN <<cur, prev>>
    ELSE IF i >= lsis[l]
         THEN LocateLoop(lsis, i, l + 1, lsis[l],
                         IF l > 0 THEN lsis[l - 1] ELSE prev)
         ELSE LocateLoop(lsis, i, l + 1, cur, prev)

ChildBase(lsis, i) ==
    LET loc == LocateLoop(lsis, i, 0, 0, 0)
    IN  loc[2] + (i - loc[1]) * 2

\* ------------------------------------------------- part_000: dirty passes
\* only the flag of the first child is tested
RECURSIVE BuildLoopMut(_, _, _, _)
BuildLoopMut(i, h, s, lsis) ==
    IF i \notin DOMAIN h THEN [hashes |-> h, hstats |-> s]
    ELSE LET rch_idx == ChildBase(lsis, i)
             lch_idx == rch_idx + 1
         IN  IF s[rch_idx] = "DIRTY"
             THEN BuildLoopMut(i + 1,
                     [h EXCEPT ![i] = Compress(h[rch_idx], h[lch_idx])],
                     [s EXCEPT ![rch_idx] = "CLEAN", ![lch_idx] = "CLEAN",
                               ![i] = "DIRTY"],
                     lsis)
             ELSE BuildLoopMut(i + 1, h, s, lsis)

RECURSIVE BuildLoop(_, _, _, _)
BuildLoop(i, h, s, lsis) ==
    IF i \notin DOMAIN h THEN [hashes |-> h, hstats |-> s]
    ELSE LET rch_idx == ChildBase(lsis, i)
             lch_idx == rch_idx + 1
         IN  IF s[rch_idx] = "DIRTY" \/ s[lch_idx] = "DIRTY"
             THEN BuildLoop(i + 1,
                     [h EXCEPT ![i] = Compress(h[rch_idx], h[lch_idx])],
                     [s EXCEPT ![rch_idx] = "CLEAN", ![lch_idx] = "CLEAN",
                               ![i] = "DIRTY"],
                     lsis)
             ELSE BuildLoop(i + 1, h, s, lsis)

build_hashes_from_leaves(h, s, lsis, total) == BuildLoop(total, h, s, lsis)

ZeroLeafHash == LeafHash(Leaf(0, 0, 0))

\* off by one in the fill loop: the last leaf slot keeps its old content
FillLeavesMut(h, total) ==
    [i \in DOMAIN h |-> IF i < total - 1 THEN ZeroLeafHash ELSE h[i]]

FillLeaves(h, total) == [i \in DOMAIN h |-> IF i < total THEN ZeroLeafHash ELSE h[i]]

init_hashes(h, s, lsis, total) ==
    build_hashes_from_leaves(FillLeaves(h, total), s, lsis, total)

calculate_root(h) == Compress(h[Size(h) - 2], h[Size(h) - 1])

\* --------------------------------------- cryptography-engineer: full rehash
RECURSIVE RehashLoop(_, _, _)
RehashLoop(i, h, lsis) ==
    IF i \notin DOMAIN h THEN h
    ELSE LET ch_base_idx == ChildBase(lsis, i)
         IN  RehashLoop(i + 1,
                 [h EXCEPT ![i] = Compress(h[ch_base_idx], h[ch_base_idx + 1])],
                 lsis)

rehash(h, depth, total) == RehashLoop(total, h, LevelStrIdxs(depth))

init_hashes_rehash(h, depth, total) ==
    RehashLoop(total, FillLeaves(h, total), LevelStrIdxs(depth))

\* ------------------------------------------------------------ constructor
ConstructDirty(depth) ==
    LET total == 2 ^ depth
        lsis  == LevelStrIdxs(depth)
        h0    == [i \in 0..(total * 2 - 3) |-> Uninit]
        s0    == [i \in 0..(total * 2 - 3) |-> "DIRTY"]
        b     == init_hashes(h0, s0, lsis, total)
    IN  [total |-> total, lsis |-> lsis, hashes |-> b.hashes,
         hstats |-> b.hstats, root |-> calculate_root(b.hashes)]

ConstructRehash(depth) ==
    LET total == 2 ^ depth
        h0    == [i \in 0..(total * 2 - 3) |-> Uninit]
        h     == init_hashes_rehash(h0, depth, total)
    IN  [total |-> total, lsis |-> <<>>, hashes |-> h,
         hstats |-> <<>>, root |-> calculate_root(h)]

Construct(im, depth) ==
    IF im = "dirty" THEN ConstructDirty(depth) ELSE ConstructRehash(depth)

Init ==
    /\ impl \in Impls
    /\ depth_ \in 1..MaxDepth
    /\ LET c == Construct(impl, depth_)
       IN  /\ total_size_ = c.total
           /\ level_str_idxs_ = c.lsis
           /\ hashes_ = c.hashes
           /\ hstats_ = c.hstats
           /\ root_ = c.root
    /\ leaves_ = [i \in {0} |-> Leaf(0, 0, 0)]
    /\ call = [op |-> "init", arg |-> 0, outcome |-> "none"]
    /\ ret = NoRet
    /\ path = NoPath

\* ------------------------------------------------------- update_element
\* capacity test off by one
IsFullMut(cur_idx, total) == cur_idx > total

IsFull(cur_idx, total) == cur_idx >= total

IsDuplicate(nextValue, val) == U64(nextValue) = U64(val)

\* the end-of-list test is dropped
IsInsertionPointMut(nextValue, val) == U64(nextValue) > U64(val)

\* part_000:133
IsInsertionPoint(nextValue, val) ==
    U64(nextValue) > U64(val) \/ nextValue = 0

\* cryptography-engineer:165
IsStopPoint(nextValue, val) ==
    U64(nextValue) >= U64(val) \/ nextValue = 0

\* the while (true) loop of part_000; fuel exhausted = the loop revisits a
\* leaf and never exits
RECURSIVE WalkDirty(_, _, _, _)
WalkDirty(lv, val, idx, fuel) ==
    IF fuel = 0 THEN [kind |-> "diverge", idx |-> idx]
    ELSE IF IsDuplicate(lv[idx].nextValue, val)
         THEN [kind |-> "dup", idx |-> idx]
    ELSE IF IsInsertionPoint(lv[idx].nextValue, val)
         THEN [kind |-> "insert", idx |-> idx]
    ELSE WalkDirty(lv, val, lv[idx].nextIndex, fuel - 1)

\* the while (true) loop of the cryptography-engineer variant
RECURSIVE WalkRehash(_, _, _, _)
WalkRehash(lv, val, idx, fuel) ==
    IF fuel = 0 THEN [kind |-> "diverge", idx |-> idx]
    ELSE IF IsStopPoint(lv[idx].nextValue, val)
         THEN IF IsDuplicate(lv[idx].nextValue, val)
              THEN [kind |-> "dup", idx |-> idx]
              ELSE [kind |-> "insert", idx |-> idx]
    ELSE WalkRehash(lv, val, lv[idx].nextIndex, fuel - 1)

\* the successor is captured after the predecessor was rewritten
SpliceMut(lv, idx, cur_idx, val) ==
    PushBack([lv EXCEPT ![idx] = Leaf(lv[idx].value, cur_idx, val)],
             Leaf(val, cur_idx, val))

\* rewrite of the predecessor followed by leaves_.push_back
Splice(lv, idx, cur_idx, val) ==
    PushBack([lv EXCEPT ![idx] = Leaf(lv[idx].value, cur_idx, val)],
             Leaf(val, lv[idx].nextIndex, lv[idx].nextValue))

\* hashes_[cur_idx] = leaves_[cur_idx].hash(); hashes_[idx] = leaves_[idx].hash()
StoreLeafHashes(h, lv, idx, cur_idx) ==
    [[h EXCEPT ![cur_idx] = LeafHash(lv[cur_idx])] EXCEPT ![idx] = LeafHash(lv[idx])]

MarkDirty(s, idx, cur_idx) ==
    [[s EXCEPT ![idx] = "DIRTY"] EXCEPT ![cur_idx] = "DIRTY"]

Same(outcome) ==
    [leaves |-> leaves_, hashes |-> hashes_, hstats |-> hstats_,
     root |-> root_, outcome |-> outcome]

update_element_dirty(val) ==
    LET cur_idx == Size(leaves_)
    IN  IF IsFull(cur_idx, total_size_) THEN Same("full")
        ELSE LET w == WalkDirty(leaves_, val, 0, cur_idx + 1)
             IN  IF w.kind = "dup" THEN Same("duplicate")
                 ELSE IF w.kind = "diverge" THEN Same("diverge")
                 ELSE LET lv == Splice(leaves_, w.idx, cur_idx, val)
                          h  == StoreLeafHashes(hashes_, lv, w.idx, cur_idx)
                          s  == MarkDirty(hstats_, w.idx, cur_idx)
                          b  == build_hashes_from_leaves(h, s, level_str_idxs_,
                                                         total_size_)
                      IN  [leaves |-> lv, hashes |-> b.hashes,
                           hstats |-> b.hstats,
                           root |-> calculate_root(b.hashes),
                           outcome |-> "inserted"]

update_element_rehash(val) ==
    LET cur_idx == Size(leaves_)
    IN  IF ~(cur_idx < total_size_) THEN Same("full")
        ELSE LET w == WalkRehash(leaves_, val, 0, cur_idx + 1)
             IN  IF w.kind = "dup" THEN Same("duplicate")
                 ELSE IF w.kind = "diverge" THEN Same("diverge")
                 ELSE LET lv == Splice(leaves_, w.idx, cur_idx, val)
                      IN  [leaves |-> lv,
                           hashes |-> StoreLeafHashes(hashes_, lv, w.idx, cur_idx),
                           hstats |-> hstats_, root |-> root_,
                           outcome |-> "inserted"]

\* every return statement of update_element is `return 0;`
UpdateReturn(r) == FrLit(0)

ApplyUpdate(r, val) ==
    /\ Size(r.leaves) <= MaxLeaves
    /\ leaves_' = r.leaves
    /\ hashes_' = r.hashes
    /\ hstats_' = r.hstats
    /\ root_' = r.root
    /\ call' = [op |-> "update", arg |-> val, outcome |-> r.outcome]
    /\ ret' = UpdateReturn(r)
    /\ path' = NoPath
    /\ UNCHANGED <<impl, depth_, total_size_, level_str_idxs_>>

UpdateElementDirty(val) ==
    /\ impl = "dirty"
    /\ \E r \in {update_element_dirty(val)} : ApplyUpdate(r, val)

UpdateElementRehash(val) ==
    /\ impl = "rehash"
    /\ \E r \in {update_element_rehash(val)} : ApplyUpdate(r, val)

\* --------------------------------------------------------- get_hash_path
\* running index at level l: idx = level_str_idxs[1] + idx / 2 per level
\* the running index is not carried from level to level
RunIdxMut(lsis, idx, l) ==
    IF l = 0 THEN idx
    ELSE lsis[1] + (idx \div 2)

RECURSIVE RunIdx(_, _, _)
RunIdx(lsis, idx, l) ==
    IF l = 0 THEN idx
    ELSE lsis[1] + (RunIdx(lsis, idx, l - 1) \div 2)

\* hashes_[i]; a read past the end of the vector yields whatever is there
ReadAt(h, i) == IF i \in DOMAIN h THEN h[i] ELSE Uninit

\* the pair is stored in the wrong order for an odd index
PairAtMut(h, idx) ==
    IF idx % 2 = 1 THEN <<ReadAt(h, idx), ReadAt(h, idx - 1)>>
    ELSE <<ReadAt(h, idx), ReadAt(h, idx + 1)>>

PairAt(h, idx) ==
    IF idx % 2 = 1 THEN <<ReadAt(h, idx - 1), ReadAt(h, idx)>>
    ELSE <<ReadAt(h, idx), ReadAt(h, idx + 1)>>

\* positions of hashes_ that get_hash_path(idx) reads
PathReads(lsis, depth, idx) ==
    UNION {LET r == RunIdx(lsis, idx, l)
           IN  IF r % 2 = 1 THEN {r - 1, r} ELSE {r, r + 1} : l \in 0..(depth - 1)}

get_hash_path(h, lsis, depth, idx) ==
    [l \in 0..(depth - 1) |-> PairAt(h, RunIdx(lsis, idx, l))]

\* get_hash_path has no range check: a read outside hashes_ is undefined
\* behaviour, which either returns a path holding whatever was read or
\* ends the program
PathOutcomes(h, lsis, depth, idx) ==
    IF PathReads(lsis, depth, idx) \subseteq DOMAIN h
    THEN {[path |-> get_hash_path(h, lsis, depth, idx), outcome |-> "ok"]}
    ELSE {[path |-> get_hash_path(h, lsis, depth, idx), outcome |-> "ub_read"],
          [path |-> NoPath, outcome |-> "ub_crash"]}

GetHashPathDirty(idx) ==
    /\ impl = "dirty"
    /\ \E o \in PathOutcomes(hashes_, level_str_idxs_, depth_, idx) :
           /\ path' = o.path
           /\ call' = [op |-> "path", arg |-> idx, outcome |-> o.outcome]
    /\ ret' = NoRet
    /\ UNCHANGED <<impl, depth_, total_size_, root_, leaves_, hashes_,
                   level_str_idxs_, hstats_>>

GetHashPathRehash(idx) ==
    /\ impl = "rehash"
    /\ hashes_' = rehash(hashes_, depth_, total_size_)
    /\ root_' = calculate_root(hashes_')
    /\ \E o \in PathOutcomes(hashes_', LevelStrIdxs(depth_), depth_, idx) :
           /\ path' = o.path
           /\ call' = [op |-> "path", arg |-> idx, outcome |-> o.outcome]
    /\ ret' = NoRet
    /\ UNCHANGED <<impl, depth_, total_size_, leaves_, level_str_idxs_, hstats_>>

\* -------------------------------------- update_element_internal and root
\* the leaf hash handed to update_element_internal
InternalValue == LeafHash(Leaf(10, 0, 0))

\* the body is `return 0;`: both arguments are unnamed and unused
UpdateElementInternal(idx) ==
    /\ call' = [op |-> "internal", arg |-> idx, outcome |-> "ok"]
    /\ ret' = FrLit(0)
    /\ path' = NoPath
    /\ UNCHANGED <<impl, depth_, total_size_, root_, leaves_, hashes_,
                   level_str_idxs_, hstats_>>

Root ==
    /\ call' = [op |-> "root", arg |-> 0, outcome |-> "ok"]
    /\ ret' = root_
    /\ path' = NoPath
    /\ UNCHANGED <<impl, depth_, total_size_, root_, leaves_, hashes_,
                   level_str_idxs_, hstats_>>

\* indices offered to get_hash_path: every occupied leaf, the first free
\* slot, and the first index past the last leaf slot
PathIndices == {i \in 0..total_size_ : i <= Size(leaves_) \/ i = total_size_}

Next ==
    \/ \E val \in Values : UpdateElementDirty(val)
    \/ \E val \in Values : UpdateElementRehash(val)
    \/ \E idx \in PathIndices : GetHashPathDirty(idx)
    \/ \E idx \in PathIndices : GetHashPathRehash(idx)
    \/ \E idx \in {0, total_size_ - 1} : UpdateElementInternal(idx)
    \/ Root

Spec == Init /\ [][Next]_vars

\* --------------------- the constructor's level table at machine width
\* A size_t or int value is the set of the positions of its one bits, so
\* that 2^32 and above are exact.
CtorMaxDepth == 32
IntBits == 32
SizeBits == 64

\* x + 2^n in size_t arithmetic (the carry out of the top bit is lost)
RECURSIVE AddBit(_, _)
AddBit(x, n) ==
    IF n >= SizeBits THEN x
    ELSE IF n \in x THEN AddBit(x \ {n}, n + 1)
    ELSE x \cup {n}

\* prev + y in size_t arithmetic
RECURSIVE AddSizeT(_, _)
AddSizeT(x, y) ==
    IF y = {} THEN x
    ELSE LET n == CHOOSE k \in y : TRUE
         IN  AddSizeT(AddBit(x, n), y \ {n})

\* the usual arithmetic conversion of the int operand of prev + (1 << ..):
\* a negative int is sign-extended
IntToSizeT(b) ==
    IF (IntBits - 1) \in b THEN b \cup (IntBits..(SizeBits - 1)) ELSE b

\* 1 << n with an int left operand.  n = 31 sets the sign bit (INT_MIN).
\* n >= 32 is undefined: the shifter takes the count modulo 32, or the
\* result is 0.
ShlInt(n) == IF n < IntBits THEN {{n}} ELSE {{n % IntBits}, {}}

\* part_000:57-65 up to level_str_idxs_.push_back(0); the tree itself is
\* not built in this specification
InitLevels ==
    /\ impl = "dirty"
    /\ depth_ \in 1..CtorMaxDepth
    /\ total_size_ = {depth_}
    /\ root_ = Uninit
    /\ leaves_ = << >>
    /\ hashes_ = << >>
    /\ hstats_ = << >>
    /\ level_str_idxs_ = [l \in {0} |-> {}]
    /\ call = [op |-> "ctor", arg |-> depth_, outcome |-> "ok"]
    /\ ret = NoRet
    /\ path = NoPath

\* one iteration of the loop of part_000:66-69
PushLevelStart ==
    /\ call.op = "ctor"
    /\ Size(level_str_idxs_) < depth_
    /\ LET i == Size(level_str_idxs_)
           prev == level_str_idxs_[i - 1]
       IN  \E sh \in ShlInt(depth_ - (i - 1)) :
               level_str_idxs_' =
                   PushBack(level_str_idxs_, AddSizeT(prev, IntToSizeT(sh)))
    /\ UNCHANGED <<impl, depth_, total_size_, root_, leaves_, hashes_,
                   hstats_, call, ret, path>>

NextLevels == PushLevelStart

SpecLevels == InitLevels /\ [][NextLevels]_vars

\* ================================================================ claims
Occupied == 0..(Size(leaves_) - 1)

\* values met by following nextIndex from leaf idx until the tail
RECURSIVE Visit(_, _, _)
Visit(lv, idx, fuel) ==
    IF fuel = 0 \/ lv[idx].nextValue = 0 THEN <<>>
    ELSE <<lv[lv[idx].nextIndex].value>> \o Visit(lv, lv[idx].nextIndex, fuel - 1)

Ascending(sq) == \A k \in 1..(Len(sq) - 1) : sq[k] < sq[k + 1]

InsertedValues == {leaves_[i].value : i \in Occupied \ {0}}

\* every value accepted so far is non-zero and was accepted once
DistinctNonZero ==
    /\ 0 \notin InsertedValues
    /\ Cardinality(InsertedValues) = Size(leaves_) - 1

\* C1: when the values passed to update_element on a fresh tree are distinct
\* and non-zero, the walk from leaf 0 is strictly ascending and visits
\* exactly the passed values: every inserted leaf once, and no distinct
\* non-zero value was turned away as a duplicate.
C1_SortedExactList ==
    DistinctNonZero =>
        LET vis == Visit(leaves_, 0, Size(leaves_))
        IN  /\ Ascending(vis)
            /\ Len(vis) = Size(leaves_) - 1
            /\ {vis[k] : k \in 1..Len(vis)} = InsertedValues
            /\ (call.op = "update" /\ call.outcome = "duplicate" /\ call.arg # 0)
                   => call.arg \in InsertedValues

IsOneOf(x, pair) == x = pair[1] \/ x = pair[2]

\* C2: the path returned by get_hash_path(i) for an occupied leaf i
\* recombines to root(): the leaf's hash is in the first pair, each pair
\* compresses to an element of the next pair, the last pair compresses to
\* the root.
C2_PathRecombines ==
    (call.op = "path" /\ call.arg \in Occupied) =>
        /\ DOMAIN path = 0..(depth_ - 1)
        /\ IsOneOf(LeafHash(leaves_[call.arg]), path[0])
        /\ \A l \in 0..(depth_ - 2) :
               IsOneOf(Compress(path[l][1], path[l][2]), path[l + 1])
        /\ Compress(path[depth_ - 1][1], path[depth_ - 1][2]) = root_

C2_Witness ==
    /\ call.op = "path"
    /\ depth_ = 3
    /\ Size(leaves_) = 5
    /\ call.arg = 3

\* C3: every stored internal node equals the compression of the current
\* hashes of its two children.
C3_InternalNodesConsistent ==
    \A i \in DOMAIN hashes_ :
        i >= total_size_ =>
            LET cb == ChildBase(LevelStrIdxs(depth_), i)
            IN  hashes_[i] = Compress(hashes_[cb], hashes_[cb + 1])

\* C4: the cached root equals the compression of the two hashes at the last
\* two positions of hashes_.
C4_RootIsCompressionOfTop ==
    root_ = Compress(hashes_[2 * total_size_ - 4], hashes_[2 * total_size_ - 3])

RECURSIVE EmptySubtree(_)
EmptySubtree(level) ==
    IF level = 0 THEN <<"H", 0, 0, 0>>
    ELSE Compress(EmptySubtree(level - 1), EmptySubtree(level - 1))

\* C5: the root of a newly constructed tree is the iterated pairwise
\* compression of 2^depth copies of hash({0,0,0}).
C5_EmptyTreeRoot ==
    call.op = "init" => root_ = EmptySubtree(depth_)

C5_Witness ==
    /\ call.op = "init"
    /\ depth_ = MaxDepth

\* C6: update_element with a value that some leaf already holds changes
\* neither the leaves, nor hashes_, nor the root.
C6_DuplicateIsNoOp ==
    [][(call'.op = "update" /\ \E i \in Occupied : leaves_[i].value = call'.arg)
          => (leaves_' = leaves_ /\ hashes_' = hashes_ /\ root_' = root_)]_vars

\* C7: update_element(0) never appends a leaf, rewrites a leaf or changes
\* the root.
C7_ZeroIsRejected ==
    [][(call'.op = "update" /\ call'.arg = 0)
          => (leaves_' = leaves_ /\ root_' = root_)]_vars

C9_ReturnsNewRoot ==
    (call.op = "update" /\ call.outcome = "inserted") => ret = root_

\* C10: two update_element calls with different outcomes (inserted,
\* duplicate, full) return different values.
C10_OutcomeInReturn ==
    [][(call.op = "update" /\ call'.op = "update"
           /\ call.outcome # call'.outcome) => ret' # ret]_vars

\* C11: get_hash_path rejects every index that is not an occupied leaf
\* (outside [0, total_size) or >= the occupied count) with an error outcome,
\* without reading outside hashes_.
C11_OutOfRangeRejected ==
    (call.op = "path" /\ call.arg \notin Occupied)
        => call.outcome = "out_of_range"

\* C12: get_hash_path leaves leaves_, hashes_, the freshness flags and root_
\* as they were.
C12_PathIsPureRead ==
    [][call'.op = "path"
          => UNCHANGED <<leaves_, hashes_, hstats_, root_>>]_vars

\* leaf tables of the class comment: initial state, then after adding 30,
\* 10, 20 and 50 (value, nextIdx, nextVal per occupied index)
HeaderTables ==
    << << <<0, 0, 0>> >>,
       << <<0, 1, 30>>, <<30, 0, 0>> >>,
       << <<0, 2, 10>>, <<30, 0, 0>>, <<10, 1, 30>> >>,
       << <<0, 2, 10>>, <<30, 0, 0>>, <<10, 3, 20>>, <<20, 1, 30>> >>,
       << <<0, 2, 10>>, <<30, 4, 50>>, <<10, 3, 20>>, <<20, 1, 30>>,
          <<50, 0, 0>> >> >>

ExampleOrder == <<30, 10, 20, 50>>

\* the accepted values so far are a prefix of 30, 10, 20, 50
InExample ==
    /\ depth_ = 3
    /\ Size(leaves_) <= 5
    /\ \A i \in Occupied \ {0} : leaves_[i].value = ExampleOrder[i]

\* C13: on a depth-3 tree, inserting 30, 10, 20, 50 in that order passes
\* through the leaf tables of the class comment and ends with the five
\* leaves 0:{0,2,10} 1:{30,4,50} 2:{10,3,20} 3:{20,1,30} 4:{50,0,0}.
C13_WorkedExample ==
    InExample =>
        LET t == HeaderTables[Size(leaves_)]
        IN  leaves_ = [i \in Occupied |-> Leaf(t[i + 1][1], t[i + 1][2], t[i + 1][3])]

C13_Witness ==
    /\ InExample
    /\ Size(leaves_) = 5
    /\ call = [op |-> "update", arg |-> 50, outcome |-> "inserted"]

\* C14: update_element_internal(index, value) stores value at hashes_[index],
\* brings the ancestors up to date and returns the updated root.
C14_InternalStoresAndReturnsRoot ==
    call.op = "internal" =>
        /\ hashes_[call.arg] = InternalValue
        /\ root_ = calculate_root(hashes_)
        /\ ret = root_

\* first leaf reached from idx whose nextValue is 0 or greater than val
\* (-1 when there is none)
RECURSIVE FirstGreater(_, _, _, _)
FirstGreater(lv, val, idx, fuel) ==
    IF fuel = 0 THEN -1
    ELSE IF lv[idx].nextValue = 0 \/ lv[idx].nextValue > val THEN idx
    ELSE FirstGreater(lv, val, lv[idx].nextIndex, fuel - 1)

\* C15: a successful update_element(value) on n leaves rewrites the
\* (nextIndex, nextValue) of the first leaf whose nextValue is 0 or greater
\* than value to (n, value), appends {value, old nextIndex, old nextValue}
\* at index n, and changes nothing else of the leaf list.
C15_SpliceAfterFirstGreater ==
    [][(call'.op = "update" /\ call'.outcome = "inserted")
          => LET n == Size(leaves_)
                 v == call'.arg
                 p == FirstGreater(leaves_, v, 0, n)
             IN  /\ p \in Occupied
                 /\ leaves_' =
                      [i \in 0..n |->
                          IF i = p THEN Leaf(leaves_[p].value, n, v)
                          ELSE IF i = n
                               THEN Leaf(v, leaves_[p].nextIndex,
                                         leaves_[p].nextValue)
                               ELSE leaves_[i]]]_vars

\* level_start[l] = total_size + total_size/2 + ... (l terms), closed form
ExpectedLevelStart(l) == 2 * total_size_ - (2 * total_size_) \div (2 ^ l)

\* (left child, right child) of the ancestor of leaf idx at level l + 1
ExpectedPair(idx, l) ==
    LET pos == ExpectedLevelStart(l) + 2 * (idx \div (2 ^ (l + 1)))
    IN  <<hashes_[pos], hashes_[pos + 1]>>

ExpectedPath(idx) == [l \in 0..(depth_ - 1) |-> ExpectedPair(idx, l)]

\* C16: for every leaf index in [0, total_size), get_hash_path returns
\* exactly depth pairs, leaf level first, and the pair at level l is the
\* pair of children of the leaf's ancestor at level l + 1.
C16_PathPairsAreAncestorsChildren ==
    (call.op = "path" /\ call.outcome = "ok") =>
        /\ path = ExpectedPath(call.arg)
        /\ \A idx \in 0..(total_size_ - 1) :
               get_hash_path(hashes_, LevelStrIdxs(depth_), depth_, idx)
                   = ExpectedPath(idx)

C16_Witness ==
    /\ call = [op |-> "path", arg |-> 5, outcome |-> "ok"]
    /\ depth_ = 3
    /\ Size(leaves_) = 5
    /\ impl = "dirty"

LeafLevel(h) == [i \in 0..(total_size_ - 1) |-> h[i]]

\* C17: the dirty-tracking implementation and the full-rehash
\* implementation agree.  In every state of the dirty-tracking tree,
\* recomputing every internal node from the leaves changes nothing, so
\* get_hash_path(i) is the same with and without the full rehash; and both
\* update_element bodies take the state to the same leaves, the same
\* outcome and the same leaf hashes, so the agreement carries over to the
\* next call.
C17_DirtyAgreesWithFullRehash ==
    (impl = "dirty" /\ call.op \in {"init", "update"}) =>
        /\ hashes_ = rehash(hashes_, depth_, total_size_)
        /\ call.op = "init" => hashes_ = ConstructRehash(depth_).hashes
        /\ \A idx \in 0..(total_size_ - 1) :
               get_hash_path(hashes_, level_str_idxs_, depth_, idx)
                 = get_hash_path(rehash(hashes_, depth_, total_size_),
                                 LevelStrIdxs(depth_), depth_, idx)
        /\ \A val \in Values :
               LET d == update_element_dirty(val)
                   r == update_element_rehash(val)
               IN  /\ d.leaves = r.leaves
                   /\ d.outcome = r.outcome
                   /\ LeafLevel(d.hashes) = LeafLevel(r.hashes)

C17_Witness ==
    /\ impl = "dirty"
    /\ depth_ = 3
    /\ Size(leaves_) = 5
    /\ call.op = "update"
    /\ call.outcome = "inserted"

\* C18: in every reachable state and for every argument value, the
\* predecessor search of update_element stops after visiting at most as
\* many leaves as the list holds (it never comes back to a leaf it has
\* visited), so no call of update_element runs forever.
C18_SearchTerminates ==
    /\ call.outcome # "diverge"
    /\ \A val \in Values :
          /\ impl = "dirty" =>
                WalkDirty(leaves_, val, 0, Size(leaves_) + 1).kind # "diverge"
          /\ impl = "rehash" =>
                WalkRehash(leaves_, val, 0, Size(leaves_) + 1).kind # "diverge"

\* the search for 50 walks 0 -> 10 -> 20 -> 30 and stops at the last leaf
C18_Witness ==
    /\ impl = "dirty"
    /\ call.op = "update"
    /\ Size(leaves_) = 4
    /\ \E i \in 1..3 :
          /\ leaves_[i].nextValue = 0
          /\ WalkDirty(leaves_, 50, 0, 5) = [kind |-> "insert", idx |-> i]

\* C19: for every depth in 1..32 the table the constructor builds, with the
\* shift done in 32-bit int, has level_start[0] = 0 and
\* level_start[l] = level_start[l-1] + 2^(depth-(l-1)), which is
\* total_size / 2^(l-1).  Adding a power of two that is not yet a one bit
\* of the sum sets that bit.
C19_LevelStartTable ==
    call.op = "ctor" =>
        /\ level_str_idxs_[0] = {}
        /\ \A l \in 1..(Size(level_str_idxs_) - 1) :
              /\ (depth_ - (l - 1)) \notin level_str_idxs_[l - 1]
              /\ level_str_idxs_[l]
                    = level_str_idxs_[l - 1] \cup {depth_ - (l - 1)}

\* the same table for the depths whose shifts stay below the sign bit
C19_LevelStartTableBelowSignBit ==
    (call.op = "ctor" /\ depth_ < IntBits - 1) => C19_LevelStartTable

\* C20: right after the constructor of the dirty-tracking implementation
\* has run init_hashes, every entry of hstats_ is CLEAN.
C20_AllCleanAfterConstruction ==
    (impl = "dirty" /\ call.op = "init") =>
        \A i \in DOMAIN hstats_ : hstats_[i] = "CLEAN"

\* C21: after update_element calls with non-zero values only, every
\* occupied leaf points at an occupied leaf whose value is the nextValue it
\* caches, and exactly one leaf, the tail, has nextValue = 0; the tail
\* points back to the sentinel at index 0.
C21_NextPointersAgree ==
    0 \notin InsertedValues =>
        /\ \A i \in Occupied :
              /\ leaves_[i].nextIndex \in Occupied
              /\ leaves_[leaves_[i].nextIndex].value = leaves_[i].nextValue
        /\ Cardinality({i \in Occupied : leaves_[i].nextValue = 0}) = 1
        /\ \A i \in Occupied :
              leaves_[i].nextValue = 0 => leaves_[i].nextIndex = 0

C21_Witness ==
    /\ call.op = "update"
    /\ call.outcome = "inserted"
    /\ Size(leaves_) = 5
    /\ 0 \notin InsertedValues
    /\ (U64Modulus + 10) \in InsertedValues
    /\ leaves_[4].nextIndex \notin {0, 4}

\* the argument agrees modulo 2^64 with the value of an occupied leaf and
\* differs from the value field of every leaf
CollidesAfterCast(val) ==
    /\ \E i \in Occupied : U64(leaves_[i].value) = U64(val)
    /\ \A i \in Occupied : leaves_[i].value # val

\* C22: update_element with a value that agrees modulo 2^64 with a value
\* already in the list, while differing from every leaf's value field, is
\* turned away: no leaf is inserted and leaves_, hashes_, hstats_ and root_
\* are unchanged.
C22_CollisionIsRejected ==
    [][(call'.op = "update" /\ CollidesAfterCast(call'.arg))
          => /\ call'.outcome # "inserted"
             /\ leaves_' = leaves_
             /\ hashes_' = hashes_
             /\ hstats_' = hstats_
             /\ root_' = root_]_vars

\* the same in the states where no leaf with value 0 was inserted
C22_CollisionIsRejectedWithoutZero ==
    [][(call'.op = "update" /\ CollidesAfterCast(call'.arg)
            /\ 0 \notin InsertedValues)
          => /\ call'.outcome # "inserted"
             /\ leaves_' = leaves_
             /\ hashes_' = hashes_
             /\ hstats_' = hstats_
             /\ root_' = root_]_vars
====
